---- MODULE Spec2Model ----
(***************************************************************************)
(* A model of file.py, the file operations command line tool: the          *)
(* filesystem it works on, its path validation, its item operations, the   *)
(* zip archiver and the organize-and-archive pipeline.                     *)
(*                                                                         *)
(* A file name is a sequence of one-character strings, a path a sequence   *)
(* of names relative to the working directory (the empty path).  The       *)
(* filesystem is a function from the paths that exist to their nodes.      *)
(* POSIX semantics are modelled; the x bit of a directory is folded into   *)
(* its r bit.                                                               *)
(***************************************************************************)
EXTENDS Integers, Sequences, FiniteSets, TLC

VARIABLES fs, pc, call, fs0, todo, processed, rep, ret, now, prev, ncalls

vars == <<fs, pc, call, fs0, todo, processed, rep, ret, now, prev, ncalls>>

(***************************************************************************)
(* Bounds                                                                  *)
(***************************************************************************)
MaxFiles == 3
MaxTime == 2
MaxCalls == 2
MaxOps == 1

(***************************************************************************)
(* Names                                                                   *)
(***************************************************************************)
N_a_jpg == <<"a",".","j","p","g">>
N_B_JPG == <<"B",".","J","P","G">>
N_b_txt == <<"b",".","t","x","t">>
N_c_xyz == <<"c",".","x","y","z">>
N_noext == <<"n","o","e","x","t">>
N_docs == <<"d","o","c","s">>
N_drop == <<"d","r","o","p">>
N_nodir == <<"n","o","d","i","r">>
N_out == <<"o","u","t">>
N_x_txt == <<"x",".","t","x","t">>
N_sub == <<"s","u","b">>
N_y_txt == <<"y",".","t","x","t">>
N_arch_zip == <<"a","r","c","h",".","z","i","p">>
N_arch == <<"a","r","c","h">>
N_E == <<"E">>
N_bad_zip == <<"b","a","d",".","z","i","p">>
N_t_txt == <<"t",".","t","x","t">>
N_new == <<"n","e","w">>
N_aLTb == <<"a","<","b">>
N_tmp == <<"t","m","p">>
N_Log_TXT == <<"L","o","g",".","T","X","T">>
N_blog == <<"b","l","o","g">>
N_c_txt == <<"c",".","t","x","t">>

Images == <<"I","m","a","g","e","s">>
Videos == <<"V","i","d","e","o","s">>
Documents == <<"D","o","c","u","m","e","n","t","s">>
Music == <<"M","u","s","i","c">>
Programs == <<"P","r","o","g","r","a","m","s">>
Applications == <<"A","p","p","l","i","c","a","t","i","o","n","s">>
Compressed == <<"C","o","m","p","r","e","s","s","e","d">>
Misc == <<"M","i","s","c">>

EXTENSION_FOLDERS ==
       (<<".","j","p","g">> :> Images)
    @@ (<<".","j","p","e","g">> :> Images)
    @@ (<<".","p","n","g">> :> Images)
    @@ (<<".","g","i","f">> :> Images)
    @@ (<<".","s","v","g">> :> Images)
    @@ (<<".","w","e","b","p">> :> Images)
    @@ (<<".","h","e","i","c">> :> Images)
    @@ (<<".","m","p","4">> :> Videos)
    @@ (<<".","a","v","i">> :> Videos)
    @@ (<<".","m","k","v">> :> Videos)
    @@ (<<".","m","o","v">> :> Videos)
    @@ (<<".","w","m","v">> :> Videos)
    @@ (<<".","p","d","f">> :> Documents)
    @@ (<<".","d","o","c">> :> Documents)
    @@ (<<".","d","o","c","x">> :> Documents)
    @@ (<<".","x","l","s">> :> Documents)
    @@ (<<".","x","l","s","x">> :> Documents)
    @@ (<<".","c","s","v">> :> Documents)
    @@ (<<".","p","p","t">> :> Documents)
    @@ (<<".","p","p","t","x">> :> Documents)
    @@ (<<".","t","x","t">> :> Documents)
    @@ (<<".","m","p","3">> :> Music)
    @@ (<<".","w","a","v">> :> Music)
    @@ (<<".","a","a","c">> :> Music)
    @@ (<<".","f","l","a","c">> :> Music)
    @@ (<<".","p","y">> :> Programs)
    @@ (<<".","i","p","y","n","b">> :> Programs)
    @@ (<<".","c">> :> Programs)
    @@ (<<".","c","p","p">> :> Programs)
    @@ (<<".","j","a","v","a">> :> Programs)
    @@ (<<".","j","s">> :> Programs)
    @@ (<<".","t","s">> :> Programs)
    @@ (<<".","s","h">> :> Programs)
    @@ (<<".","e","x","e">> :> Applications)
    @@ (<<".","m","s","i">> :> Applications)
    @@ (<<".","a","p","k">> :> Applications)
    @@ (<<".","d","m","g">> :> Applications)
    @@ (<<".","d","e","b">> :> Applications)
    @@ (<<".","r","p","m">> :> Applications)
    @@ (<<".","z","i","p">> :> Compressed)
    @@ (<<".","r","a","r">> :> Compressed)
    @@ (<<".","7","z">> :> Compressed)
    @@ (<<".","t","a","r">> :> Compressed)
    @@ (<<".","g","z">> :> Compressed)

(***************************************************************************)
(* Strings                                                                 *)
(***************************************************************************)
LowerChar(c) ==
    CASE c = "A" -> "a"
      [] c = "B" -> "b"
      [] c = "C" -> "c"
      [] c = "D" -> "d"
      [] c = "E" -> "e"
      [] c = "F" -> "f"
      [] c = "G" -> "g"
      [] c = "H" -> "h"
      [] c = "I" -> "i"
      [] c = "J" -> "j"
      [] c = "K" -> "k"
      [] c = "L" -> "l"
      [] c = "M" -> "m"
      [] c = "N" -> "n"
      [] c = "O" -> "o"
      [] c = "P" -> "p"
      [] c = "Q" -> "q"
      [] c = "R" -> "r"
      [] c = "S" -> "s"
      [] c = "T" -> "t"
      [] c = "U" -> "u"
      [] c = "V" -> "v"
      [] c = "W" -> "w"
      [] c = "X" -> "x"
      [] c = "Y" -> "y"
      [] c = "Z" -> "z"
      [] OTHER -> c

Lower(s) == [i \in 1..Len(s) |-> LowerChar(s[i])]

EndsWith(s, suf) ==
    /\ Len(suf) <= Len(s)
    /\ SubSeq(s, Len(s) - Len(suf) + 1, Len(s)) = suf

Max(S) == CHOOSE x \in S : \A y \in S : y <= x

\* str.rfind('.') as a 1-based index, 0 when there is no dot
RFindDot(name) ==
    LET I == {i \in 1..Len(name) : name[i] = "."}
    IN  IF I = {} THEN 0 ELSE Max(I)

\* PurePath.suffix: the part from the last dot on, '' when the dot is the
\* first or the last character or there is none
Suffix(name) ==
    LET i == RFindDot(name)
    IN  IF 1 < i /\ i < Len(name) THEN SubSeq(name, i, Len(name)) ELSE <<>>

\* dict.get(key, default)
Get(d, k, default) == IF k \in DOMAIN d THEN d[k] ELSE default

(***************************************************************************)
(* The filesystem                                                          *)
(***************************************************************************)
RW == {"r", "w"}
RO == {"r"}
NOPERM == {}

\* the content of a regular file: plain bytes identified by id, or a zip
\* archive with its entries, bad when its integrity check fails
Plain(id) == [t |-> "plain", id |-> id, ents |-> <<>>, bad |-> FALSE]
ZipData(ents, bad) == [t |-> "zip", id |-> <<>>, ents |-> ents, bad |-> bad]
NoData == Plain(<<>>)

FileNode(data, mode) == [kind |-> "file", mode |-> mode, data |-> data]
DirNode(mode) == [kind |-> "dir", mode |-> mode, data |-> NoData]

Parent(p) == SubSeq(p, 1, Len(p) - 1)
BaseName(p) == p[Len(p)]
IsPrefix(p, q) == Len(p) <= Len(q) /\ SubSeq(q, 1, Len(p)) = p
Under(p, q) == Len(p) < Len(q) /\ IsPrefix(p, q)
RelPath(q, p) == SubSeq(q, Len(p) + 1, Len(q))

Exists(f, p) == p \in DOMAIN f
IsDir(f, p) == p \in DOMAIN f /\ f[p].kind = "dir"
IsFile(f, p) == p \in DOMAIN f /\ f[p].kind = "file"
\* os.access(path, mode): false for a path that does not exist
Access(f, p, m) == p \in DOMAIN f /\ m \subseteq f[p].mode
Children(f, p) == {q \in DOMAIN f : Len(q) = Len(p) + 1 /\ IsPrefix(p, q)}
Restrict(f, S) == [q \in S |-> f[q]]
Remove(f, p) == Restrict(f, {q \in DOMAIN f : ~IsPrefix(p, q)})
Put(f, p, node) == [q \in (DOMAIN f) \cup {p} |-> IF q = p THEN node ELSE f[q]]

Ok(f) == [err |-> "", fs |-> f]
Fail(e, f) == [err |-> e, fs |-> f]

\* what stops the creation of a new entry at p ("" when nothing does)
CreateErr(f, p) ==
    IF ~Exists(f, Parent(p)) THEN "FileNotFoundError"
    ELSE IF ~IsDir(f, Parent(p)) THEN "NotADirectoryError"
    ELSE IF "w" \notin f[Parent(p)].mode THEN "PermissionError"
    ELSE ""

\* Path.mkdir(exist_ok=True)
Mkdir(f, p) ==
    IF Exists(f, p)
    THEN IF IsDir(f, p) THEN Ok(f) ELSE Fail("FileExistsError", f)
    ELSE IF CreateErr(f, p) # "" THEN Fail(CreateErr(f, p), f)
    ELSE Ok(Put(f, p, DirNode(RW)))

\* Path.mkdir(parents=True, exist_ok=True)
RECURSIVE MkdirParents(_, _)
MkdirParents(f, p) ==
    IF Exists(f, p)
    THEN IF IsDir(f, p) THEN Ok(f) ELSE Fail("FileExistsError", f)
    ELSE IF Exists(f, Parent(p))
    THEN Mkdir(f, p)
    ELSE LET up == MkdirParents(f, Parent(p))
         IN  IF up.err # "" THEN up ELSE Mkdir(up.fs, p)

\* rename(2): the subtree at src replaces whatever dst is
Rebase(f, src, dst) ==
    LET kept == {q \in DOMAIN f : ~IsPrefix(src, q) /\ ~IsPrefix(dst, q)}
        moved == {q \in DOMAIN f : IsPrefix(src, q)}
        To(q) == dst \o RelPath(q, src)
    IN  [q \in kept \cup {To(m) : m \in moved} |->
            IF q \in kept THEN f[q]
            ELSE f[CHOOSE m \in moved : To(m) = q]]

OsRename(f, src, dst) ==
    IF ~Exists(f, src) THEN Fail("FileNotFoundError", f)
    ELSE IF dst = <<>> \/ Under(src, dst) THEN Fail("OSError", f)
    ELSE IF ~Exists(f, Parent(dst)) THEN Fail("FileNotFoundError", f)
    ELSE IF ~IsDir(f, Parent(dst)) THEN Fail("NotADirectoryError", f)
    ELSE IF "w" \notin f[Parent(src)].mode \/ "w" \notin f[Parent(dst)].mode
    THEN Fail("PermissionError", f)
    ELSE IF src = dst THEN Ok(f)
    ELSE IF IsFile(f, src) /\ IsDir(f, dst) THEN Fail("IsADirectoryError", f)
    ELSE IF IsDir(f, src) /\ IsFile(f, dst) THEN Fail("NotADirectoryError", f)
    ELSE IF IsDir(f, src) /\ IsDir(f, dst) /\ Children(f, dst) # {}
    THEN Fail("OSError", f)
    ELSE Ok(Rebase(f, src, dst))

\* open(path, 'wb'): creates the file or truncates it
OpenWrite(f, p) ==
    IF IsDir(f, p) THEN Fail("IsADirectoryError", f)
    ELSE IF IsFile(f, p)
    THEN IF "w" \in f[p].mode THEN Ok(Put(f, p, FileNode(NoData, f[p].mode)))
         ELSE Fail("PermissionError", f)
    ELSE IF CreateErr(f, p) # "" THEN Fail(CreateErr(f, p), f)
    ELSE Ok(Put(f, p, FileNode(NoData, RW)))

\* shutil.copy2 of a regular file: content and mode
Copy2(f, src, dst0) ==
    LET dst == IF IsDir(f, dst0) THEN dst0 \o <<BaseName(src)>> ELSE dst0
    IN  IF ~Exists(f, src) THEN Fail("FileNotFoundError", f)
        ELSE IF src = dst THEN Fail("SameFileError", f)
        ELSE IF "r" \notin f[src].mode THEN Fail("PermissionError", f)
        ELSE LET o == OpenWrite(f, dst)
             IN  IF o.err # "" THEN o
                 ELSE Ok(Put(f, dst, FileNode(f[src].data, f[src].mode)))

\* os.remove / os.unlink
OsRemove(f, p) ==
    IF ~Exists(f, p) THEN Fail("FileNotFoundError", f)
    ELSE IF IsDir(f, p) THEN Fail("IsADirectoryError", f)
    ELSE IF "w" \notin f[Parent(p)].mode THEN Fail("PermissionError", f)
    ELSE Ok(Remove(f, p))

\* shutil.move of a regular file (the directory case is ShutilMoveDir)
ShutilMoveFile(f, src, dst) ==
    LET real_dst == IF IsDir(f, dst) THEN dst \o <<BaseName(src)>> ELSE dst
    IN  IF IsDir(f, dst) /\ Exists(f, real_dst) THEN Fail("Error", f)
        ELSE LET rn == OsRename(f, src, real_dst)
             IN  IF rn.err = "" THEN rn
                 ELSE LET cp == Copy2(f, src, real_dst)
                      IN  IF cp.err # "" THEN cp ELSE OsRemove(cp.fs, src)

(***************************************************************************)
(* Zip archives                                                            *)
(***************************************************************************)
\* the bytes on disk while a ZipFile is open for writing: not yet an archive
Partial == [t |-> "partial", id |-> <<>>, ents |-> <<>>, bad |-> TRUE]

\* zipfile.ZipFile(path, "w"): creates or truncates the file
ZipOpen(f, p) ==
    LET o == OpenWrite(f, p)
    IN  IF o.err # "" THEN o
        ELSE Ok(Put(o.fs, p, FileNode(Partial, o.fs[p].mode)))

\* ZipFile.write(filename, arcname): the entry written, or the error
ZipEntry(f, filename, arcname) ==
    IF ~Exists(f, filename) THEN [err |-> "FileNotFoundError"]
    ELSE IF IsDir(f, filename)
    THEN [err |-> "", arc |-> arcname, dir |-> TRUE, data |-> NoData]
    ELSE IF "r" \notin f[filename].mode THEN [err |-> "PermissionError"]
    ELSE [err |-> "", arc |-> arcname, dir |-> FALSE, data |-> f[filename].data]

\* ZipFile.close(): the central directory is written, the file is an archive
ZipClose(f, p, ents) == Put(f, p, FileNode(ZipData(ents, FALSE), f[p].mode))

(***************************************************************************)
(* organize_files                                                          *)
(***************************************************************************)
Digit == <<"1", "2", "3", "4", "5", "6", "7", "8", "9">>
\* datetime.now().strftime('%Y%m%d_%H%M%S'): one string per second
Stamp(t) == <<"T", Digit[t]>>
ZipName(t) == <<"a","r","c","h","i","v","e","_">> \o Stamp(t) \o <<".","z","i","p">>

LStrip(s) == LET I == {i \in 1..Len(s) : s[i] # " "}
             IN  IF I = {} THEN <<>> ELSE SubSeq(s, CHOOSE i \in I : \A j \in I : i <= j, Len(s))
RStrip(s) == LET I == {i \in 1..Len(s) : s[i] # " "}
             IN  IF I = {} THEN <<>> ELSE SubSeq(s, 1, Max(I))
\* str.strip() of a path string given as its components
Strip(p) ==
    IF p = <<>> THEN <<>>
    ELSE [i \in 1..Len(p) |->
            IF Len(p) = 1 THEN RStrip(LStrip(p[i]))
            ELSE IF i = 1 THEN LStrip(p[i])
            ELSE IF i = Len(p) THEN RStrip(p[i])
            ELSE p[i]]
\* Path(string): empty components collapse; the empty string is "."
PathOf(p) == SelectSeq(p, LAMBDA n : n # <<>>)
\* the string is empty
IsEmptyStr(p) == \A i \in 1..Len(p) : p[i] = <<>>

\* the lookup without lower-casing the extension
Category_NoLower(name) == Get(EXTENSION_FOLDERS, Suffix(name), Misc)

Category(name) == Get(EXTENSION_FOLDERS, Lower(Suffix(name)), Misc)

EmptyRep == [moved |-> {}, skipped |-> {}, failed |-> {}, dry |-> {},
             archive |-> "", bundled |-> -1, count |-> -1, msg |-> ""]

\* the iteration that reports a move whether or not shutil.move raised
OrganizeOne_AppendAlways(f, folder_path, name, dry_run) ==
    LET file == folder_path \o <<name>>
        target_dir == folder_path \o <<Category(name)>>
        new_path == target_dir \o <<name>>
        mk == Mkdir(f, target_dir)
        mv == ShutilMoveFile(mk.fs, file, new_path)
    IN  IF ~IsFile(f, file) THEN [ev |-> "none", fs |-> f]
        ELSE IF ~Access(f, file, RW) THEN [ev |-> "skipped", fs |-> f]
        ELSE IF mk.err = "PermissionError" THEN [ev |-> "failed", fs |-> f]
        ELSE IF mk.err # "" THEN [ev |-> "skipped", fs |-> f]
        ELSE IF dry_run THEN [ev |-> "dry", fs |-> mk.fs]
        ELSE [ev |-> "moved", fs |-> mv.fs]

\* the iteration without the permission check on the file
OrganizeOne_NoPermCheck(f, folder_path, name, dry_run) ==
    LET file == folder_path \o <<name>>
        target_dir == folder_path \o <<Category(name)>>
        new_path == target_dir \o <<name>>
        mk == Mkdir(f, target_dir)
        mv == ShutilMoveFile(mk.fs, file, new_path)
    IN  IF ~IsFile(f, file) THEN [ev |-> "none", fs |-> f]
        ELSE IF mk.err = "PermissionError" THEN [ev |-> "failed", fs |-> f]
        ELSE IF mk.err # "" THEN [ev |-> "skipped", fs |-> f]
        ELSE IF dry_run THEN [ev |-> "dry", fs |-> mk.fs]
        ELSE IF mv.err = "" THEN [ev |-> "moved", fs |-> mv.fs]
        ELSE IF mv.err \in {"PermissionError", "Error", "SameFileError"}
        THEN [ev |-> "failed", fs |-> mv.fs]
        ELSE [ev |-> "skipped", fs |-> mv.fs]

\* the iteration that takes subdirectories as well as regular files
OrganizeOne_NoFileCheck(f, folder_path, name, dry_run) ==
    LET file == folder_path \o <<name>>
        target_dir == folder_path \o <<Category(name)>>
        new_path == target_dir \o <<name>>
        mk == Mkdir(f, target_dir)
        mv == ShutilMoveFile(mk.fs, file, new_path)
    IN  IF ~Exists(f, file) THEN [ev |-> "none", fs |-> f]
        ELSE IF ~Access(f, file, RW) THEN [ev |-> "skipped", fs |-> f]
        ELSE IF mk.err = "PermissionError" THEN [ev |-> "failed", fs |-> f]
        ELSE IF mk.err # "" THEN [ev |-> "skipped", fs |-> f]
        ELSE IF dry_run THEN [ev |-> "dry", fs |-> mk.fs]
        ELSE IF mv.err = "" THEN [ev |-> "moved", fs |-> mv.fs]
        ELSE IF mv.err \in {"PermissionError", "Error", "SameFileError"}
        THEN [ev |-> "failed", fs |-> mv.fs]
        ELSE [ev |-> "skipped", fs |-> mv.fs]

\* one iteration of the loop over folder_path.iterdir()
OrganizeOne(f, folder_path, name, dry_run) ==
    LET file == folder_path \o <<name>>
        target_dir == folder_path \o <<Category(name)>>
        new_path == target_dir \o <<name>>
        mk == Mkdir(f, target_dir)
        mv == ShutilMoveFile(mk.fs, file, new_path)
    IN  IF ~IsFile(f, file) THEN [ev |-> "none", fs |-> f]
        ELSE IF ~Access(f, file, RW) THEN [ev |-> "skipped", fs |-> f]
        ELSE IF mk.err = "PermissionError" THEN [ev |-> "failed", fs |-> f]
        ELSE IF mk.err # "" THEN [ev |-> "skipped", fs |-> f]
        ELSE IF dry_run THEN [ev |-> "dry", fs |-> mk.fs]
        ELSE IF mv.err = "" THEN [ev |-> "moved", fs |-> mv.fs]
        ELSE IF mv.err \in {"PermissionError", "Error", "SameFileError"}
        THEN [ev |-> "failed", fs |-> mv.fs]
        ELSE [ev |-> "skipped", fs |-> mv.fs]

RECURSIVE ZipWriteAll(_, _, _, _)
\* for file in processed: zf.write(file, file.name)
ZipWriteAll(f, files, i, ents) ==
    IF i > Len(files) THEN [err |-> "", ents |-> ents]
    ELSE LET e == ZipEntry(f, files[i], <<BaseName(files[i])>>)
         IN  IF e.err # "" THEN [err |-> e.err, ents |-> ents]
             ELSE ZipWriteAll(f, files, i + 1, Append(ents, e))

\* the bundling that takes the moved files away when the archive fails
Bundle_Rollback(f, files, zip_dir, zip_name) ==
    LET zip_path == zip_dir \o <<zip_name>>
        mk == Mkdir(f, zip_dir)
        o == ZipOpen(mk.fs, zip_path)
        w == ZipWriteAll(o.fs, files, 1, <<>>)
        undone == Restrict(f, DOMAIN f \ {files[i] : i \in 1..Len(files)})
    IN  IF mk.err # "" THEN Fail(mk.err, undone)
        ELSE IF o.err # "" THEN Fail(o.err, undone)
        ELSE [err |-> w.err, fs |-> ZipClose(o.fs, zip_path, w.ents)]

\* the bundling of the moved files into zip_dir / zip_name
Bundle(f, files, zip_dir, zip_name) ==
    LET zip_path == zip_dir \o <<zip_name>>
        mk == Mkdir(f, zip_dir)
        o == ZipOpen(mk.fs, zip_path)
        w == ZipWriteAll(o.fs, files, 1, <<>>)
    IN  IF mk.err # "" THEN Fail(mk.err, f)
        ELSE IF o.err # "" THEN Fail(o.err, mk.fs)
        ELSE [err |-> w.err, fs |-> ZipClose(o.fs, zip_path, w.ents)]

OrganizeArgs(folder, dry_run, compress, compress_path) ==
    [op |-> "organize_files", folder |-> folder, dry_run |-> dry_run,
     compress |-> compress, compress_path |-> compress_path]

\* the checks before the loop; "" when the folder is accepted
OrganizeCheck(f, folder) ==
    IF IsEmptyStr(folder) THEN "empty"
    ELSE IF ~Exists(f, PathOf(Strip(folder))) THEN "missing"
    ELSE IF ~IsDir(f, PathOf(Strip(folder))) THEN "notdir"
    ELSE IF IsEmptyStr(Strip(folder)) \/ ~Access(f, PathOf(Strip(folder)), RW)
    THEN "denied"
    ELSE ""

OrganizeStart(folder, dry_run, compress, compress_path) ==
    /\ pc = "idle"
    /\ ncalls < MaxCalls
    /\ ncalls' = ncalls + 1
    /\ prev' = [call |-> call, ret |-> ret, fs0 |-> fs0]
    /\ call' = OrganizeArgs(folder, dry_run, compress, compress_path)
    /\ fs0' = fs
    /\ processed' = <<>>
    /\ rep' = EmptyRep
    /\ IF OrganizeCheck(fs, folder) # ""
       THEN /\ ret' = "False"
            /\ todo' = {}
            /\ pc' = "idle"
       ELSE /\ ret' = "none"
            /\ todo' = {BaseName(q) : q \in Children(fs, PathOf(Strip(folder)))}
            /\ pc' = "organize_loop"
    /\ UNCHANGED <<fs, now>>

OrganizeFile ==
    /\ pc = "organize_loop"
    /\ \E name \in todo :
         LET folder_path == PathOf(Strip(call.folder))
             r == OrganizeOne(fs, folder_path, name, call.dry_run)
         IN  /\ fs' = r.fs
             /\ todo' = todo \ {name}
             /\ processed' = IF r.ev = "moved"
                             THEN Append(processed, folder_path \o <<Category(name), name>>)
                             ELSE processed
             /\ rep' = IF r.ev = "none" THEN rep
                       ELSE [rep EXCEPT ![r.ev] = @ \cup {name}]
    /\ UNCHANGED <<pc, call, fs0, ret, now, prev, ncalls>>

OrganizeFinish ==
    /\ pc = "organize_loop"
    /\ todo = {}
    /\ IF call.compress /\ processed # <<>>
       THEN \E t \in now..MaxTime :
              LET zip_dir == IF call.compress_path # <<>> THEN PathOf(call.compress_path)
                             ELSE PathOf(Strip(call.folder)) \o <<Compressed>>
                  b == Bundle(fs, processed, zip_dir, ZipName(t))
              IN  /\ now' = t
                  /\ fs' = b.fs
                  /\ rep' = [rep EXCEPT !.archive = IF b.err = "" THEN "ok" ELSE b.err,
                                        !.bundled = IF b.err = "" THEN Len(processed) ELSE -1]
       ELSE UNCHANGED <<fs, rep, now>>
    /\ ret' = "True"
    /\ pc' = "idle"
    /\ UNCHANGED <<call, fs0, todo, processed, prev, ncalls>>

(***************************************************************************)
(* validate_path                                                           *)
(***************************************************************************)
IllegalChars == {"<", ">", "|", "NUL", "LF", "CR"}
HasIllegal(p) == \E i \in 1..Len(p) : \E j \in 1..Len(p[i]) : p[i][j] \in IllegalChars

\* os.stat(p) as Path.exists, is_dir and is_file see it: every directory
\* on the way has to be searched; "ok", or the errno that stops it
Stat(f, p) ==
    LET Pre(k) == SubSeq(p, 1, k)
        bad == {k \in 0..(Len(p) - 1) : ~IsDir(f, Pre(k)) \/ "r" \notin f[Pre(k)].mode}
        k0 == CHOOSE k \in bad : \A j \in bad : k <= j
    IN  IF bad = {} THEN IF Exists(f, p) THEN "ok" ELSE "ENOENT"
        ELSE IF ~Exists(f, Pre(k0)) THEN "ENOENT"
        ELSE IF ~IsDir(f, Pre(k0)) THEN "ENOTDIR"
        ELSE "EACCES"

\* validate_path(path, should_exist, path_type): (valid, error or warning)
validate_path(f, path, should_exist, path_type) ==
    LET path_obj == PathOf(Strip(path))
        st == Stat(f, path_obj)
        sp == Stat(f, Parent(path_obj))
    IN  IF IsEmptyStr(path) THEN [ok |-> FALSE, msg |-> "InvalidPath"]
        ELSE IF IsEmptyStr(Strip(path)) THEN [ok |-> FALSE, msg |-> "InvalidPath"]
        ELSE IF HasIllegal(path_obj) THEN [ok |-> FALSE, msg |-> "InvalidPath"]
        ELSE IF should_exist
        THEN IF st = "EACCES" THEN [ok |-> FALSE, msg |-> "AccessDenied"]
             ELSE IF st # "ok" THEN [ok |-> FALSE, msg |-> "NotFound"]
             ELSE IF path_type = "file" /\ IsDir(f, path_obj)
             THEN [ok |-> FALSE, msg |-> "TypeMismatch"]
             ELSE IF path_type = "dir" /\ IsFile(f, path_obj)
             THEN [ok |-> FALSE, msg |-> "TypeMismatch"]
             ELSE [ok |-> TRUE, msg |-> ""]
        ELSE IF sp = "EACCES" THEN [ok |-> FALSE, msg |-> "AccessDenied"]
        ELSE IF sp # "ok" THEN [ok |-> FALSE, msg |-> "MissingParent"]
        ELSE IF st = "EACCES" THEN [ok |-> FALSE, msg |-> "AccessDenied"]
        ELSE IF st = "ok" /\ path_type = "file"
        THEN [ok |-> TRUE, msg |-> "warning"]
        ELSE [ok |-> TRUE, msg |-> ""]

(***************************************************************************)
(* compress_files and extract_zip                                          *)
(***************************************************************************)
DotZip == <<".", "z", "i", "p">>
\* string.lower().endswith('.zip'), the string given as its components
IsZipName(p) == p # <<>> /\ EndsWith(Lower(p[Len(p)]), DotZip)
\* dst += '.zip'
AddZip(p) == SubSeq(p, 1, Len(p) - 1) \o <<p[Len(p)] \o DotZip>>

\* the regular files os.walk(src) yields: those below src that are reached
\* through readable directories
WalkFiles(f, src) ==
    {q \in DOMAIN f :
        /\ IsFile(f, q)
        /\ Under(src, q)
        /\ \A k \in Len(src)..(Len(q) - 1) : "r" \in f[SubSeq(q, 1, k)].mode}

RECURSIVE SetToSeq(_)
\* the files in the order of the walk (os.listdir leaves it open; one is taken)
SetToSeq(S) ==
    IF S = {} THEN <<>>
    ELSE LET x == CHOOSE y \in S : \A z \in S : Len(y) <= Len(z)
         IN  <<x>> \o SetToSeq(S \ {x})

RECURSIVE ZipWalk(_, _, _, _, _)
\* the loop over the walked files: unreadable files and failing writes are
\* passed over
ZipWalk(f, src, files, i, ents) ==
    IF i > Len(files) THEN ents
    ELSE LET e == ZipEntry(f, files[i], RelPath(files[i], src))
         IN  IF "r" \notin f[files[i]].mode \/ e.err # ""
             THEN ZipWalk(f, src, files, i + 1, ents)
             ELSE ZipWalk(f, src, files, i + 1, Append(ents, e))

\* the body of compress_files after the validation of src and the empty
\* check of dst: [ret, msg, count, fs]
CompressBody(f, src, dst) ==
    LET srcP == PathOf(src)
        dstP == PathOf(IF IsZipName(Strip(dst)) THEN Strip(dst) ELSE AddZip(Strip(dst)))
        dst_parent == Parent(dstP)
        mk == IF Exists(f, dst_parent) THEN Ok(f) ELSE MkdirParents(f, dst_parent)
        o == ZipOpen(mk.fs, dstP)
        ents == IF IsDir(o.fs, srcP)
                THEN ZipWalk(o.fs, srcP, SetToSeq(WalkFiles(o.fs, srcP)), 1, <<>>)
                ELSE <<ZipEntry(o.fs, srcP, <<BaseName(srcP)>>)>>
        closed == ZipClose(o.fs, dstP, ents)
    IN  IF ~Access(f, srcP, RO)
        THEN [ret |-> "False", msg |-> "AccessDenied", count |-> -1, fs |-> f]
        ELSE IF mk.err # ""
        THEN [ret |-> "False", msg |-> mk.err, count |-> -1, fs |-> mk.fs]
        ELSE IF ~Access(mk.fs, dst_parent, {"w"})
        THEN [ret |-> "False", msg |-> "AccessDenied", count |-> -1, fs |-> mk.fs]
        ELSE IF o.err # ""
        THEN [ret |-> "False", msg |-> o.err, count |-> -1, fs |-> mk.fs]
        ELSE IF IsDir(o.fs, srcP) /\ Len(ents) = 0
        THEN [ret |-> "False", msg |-> "EmptySource", count |-> -1, fs |-> closed]
        ELSE [ret |-> "True", msg |-> "", count |-> Len(ents), fs |-> closed]

CompressArgs(src, dst) == [op |-> "compress_files", src |-> src, dst |-> dst]

compress_files(src, dst) ==
    /\ pc = "idle"
    /\ ncalls < MaxCalls
    /\ ncalls' = ncalls + 1
    /\ prev' = [call |-> call, ret |-> ret, fs0 |-> fs0]
    /\ call' = CompressArgs(src, dst)
    /\ fs0' = fs
    /\ LET v == validate_path(fs, src, TRUE, "auto")
           r == CompressBody(fs, src, dst)
       IN  IF ~v.ok
           THEN /\ ret' = "False"
                /\ rep' = [EmptyRep EXCEPT !.msg = v.msg]
                /\ fs' = fs
           ELSE IF IsEmptyStr(dst)
           THEN /\ ret' = "False"
                /\ rep' = [EmptyRep EXCEPT !.msg = "InvalidPath"]
                /\ fs' = fs
           ELSE /\ ret' = r.ret
                /\ rep' = [EmptyRep EXCEPT !.msg = r.msg, !.count = r.count]
                /\ fs' = r.fs
    /\ UNCHANGED <<pc, todo, processed, now>>

\* ZipFile.extract of one entry into dst
ExtractOne(f, dst, e) ==
    LET target == dst \o e.arc
        up == MkdirParents(f, Parent(target))
        o == OpenWrite(up.fs, target)
    IN  IF e.dir THEN MkdirParents(f, target)
        ELSE IF up.err # "" THEN up
        ELSE IF o.err # "" THEN Fail(o.err, up.fs)
        ELSE Ok(Put(o.fs, target, FileNode(e.data, o.fs[target].mode)))

ExtractArgs(src, dst) == [op |-> "extract_zip", src |-> src, dst |-> dst]

\* the checks of extract_zip up to the opening of the archive:
\* [msg, fs], msg "" when the archive is open
ExtractOpen(f, src, dst) ==
    LET v == validate_path(f, src, TRUE, "file")
        srcP == PathOf(src)
        dst_path == PathOf(Strip(dst))
        mk == IF Exists(f, dst_path) THEN Ok(f) ELSE MkdirParents(f, dst_path)
    IN  IF ~v.ok THEN [msg |-> v.msg, fs |-> f]
        ELSE IF ~IsZipName(src) THEN [msg |-> "NotZip", fs |-> f]
        ELSE IF IsEmptyStr(dst) THEN [msg |-> "InvalidPath", fs |-> f]
        ELSE IF ~Access(f, srcP, RO) THEN [msg |-> "AccessDenied", fs |-> f]
        ELSE IF mk.err # "" THEN [msg |-> mk.err, fs |-> mk.fs]
        ELSE IF IsEmptyStr(Strip(dst)) \/ ~Access(mk.fs, dst_path, {"w"})
        THEN [msg |-> "AccessDenied", fs |-> mk.fs]
        ELSE IF IsDir(mk.fs, srcP) THEN [msg |-> "IsADirectoryError", fs |-> mk.fs]
        ELSE IF mk.fs[srcP].data.t # "zip" THEN [msg |-> "CorruptArchive", fs |-> mk.fs]
        ELSE [msg |-> "", fs |-> mk.fs]

extract_zip(src, dst) ==
    /\ pc = "idle"
    /\ ncalls < MaxCalls
    /\ ncalls' = ncalls + 1
    /\ prev' = [call |-> call, ret |-> ret, fs0 |-> fs0]
    /\ call' = ExtractArgs(src, dst)
    /\ fs0' = fs
    /\ todo' = {}
    /\ LET r == ExtractOpen(fs, src, dst)
       IN  /\ fs' = r.fs
           /\ rep' = [EmptyRep EXCEPT !.msg = r.msg]
           /\ IF r.msg # ""
              THEN /\ ret' = "False"
                   /\ pc' = "idle"
                   /\ processed' = <<>>
              ELSE /\ ret' = "none"
                   /\ pc' = "extract_test"
                   /\ processed' = r.fs[PathOf(src)].data.ents
    /\ UNCHANGED now

\* the extraction that goes on whatever the integrity check finds
ExtractTest_NoCheck ==
    /\ pc = "extract_test"
    /\ pc' = "extract_all"
    /\ todo' = 1..Len(processed)
    /\ UNCHANGED <<ret, rep>>
    /\ UNCHANGED <<fs, call, fs0, processed, now, prev, ncalls>>

\* zf.testzip(): the whole archive is read before anything is extracted
ExtractTest ==
    /\ pc = "extract_test"
    /\ IF fs0[PathOf(call.src)].data.bad
       THEN /\ ret' = "False"
            /\ rep' = [rep EXCEPT !.msg = "CorruptArchive"]
            /\ pc' = "idle"
            /\ todo' = {}
       ELSE /\ pc' = "extract_all"
            /\ todo' = 1..Len(processed)
            /\ UNCHANGED <<ret, rep>>
    /\ UNCHANGED <<fs, call, fs0, processed, now, prev, ncalls>>

\* zf.extractall(dst), one entry at a time in the order of the archive
ExtractEntry ==
    /\ pc = "extract_all"
    /\ todo # {}
    /\ LET k == CHOOSE i \in todo : \A j \in todo : i <= j
           r == ExtractOne(fs, PathOf(Strip(call.dst)), processed[k])
       IN  /\ fs' = r.fs
           /\ IF r.err # ""
              THEN /\ ret' = "False"
                   /\ rep' = [rep EXCEPT !.msg = r.err]
                   /\ pc' = "idle"
                   /\ todo' = todo
              ELSE /\ todo' = todo \ {k}
                   /\ UNCHANGED <<ret, rep, pc>>
    /\ UNCHANGED <<call, fs0, processed, now, prev, ncalls>>

ExtractFinish ==
    /\ pc = "extract_all"
    /\ todo = {}
    /\ ret' = "True"
    /\ rep' = [rep EXCEPT !.count = Len(processed)]
    /\ pc' = "idle"
    /\ UNCHANGED <<fs, call, fs0, todo, processed, now, prev, ncalls>>

(***************************************************************************)
(* create_file, write_file, rename_item, delete_item, copy_item, move_item *)
(***************************************************************************)
\* Path.touch(exist_ok=True)
Touch(f, p) ==
    IF Exists(f, p) THEN Ok(f)
    ELSE IF CreateErr(f, p) # "" THEN Fail(CreateErr(f, p), f)
    ELSE Ok(Put(f, p, FileNode(NoData, RW)))

\* open(path, 'a'): creates the file, keeps what it holds
OpenAppend(f, p) ==
    IF IsDir(f, p) THEN Fail("IsADirectoryError", f)
    ELSE IF IsFile(f, p)
    THEN IF "w" \in f[p].mode THEN Ok(f) ELSE Fail("PermissionError", f)
    ELSE IF CreateErr(f, p) # "" THEN Fail(CreateErr(f, p), f)
    ELSE Ok(Put(f, p, FileNode(NoData, RW)))

RECURSIVE RmTree(_, _)
RECURSIVE RmEntries(_, _, _)
\* shutil.rmtree: the first error ends it, what was removed stays removed
RmTree(f, p) ==
    IF "r" \notin f[p].mode THEN Fail("PermissionError", f)
    ELSE LET r == RmEntries(f, SetToSeq(Children(f, p)), 1)
         IN  IF r.err # "" THEN r
             ELSE IF p = <<>> THEN Fail("OSError", r.fs)
             ELSE IF "w" \notin r.fs[Parent(p)].mode THEN Fail("PermissionError", r.fs)
             ELSE Ok(Remove(r.fs, p))
RmEntries(f, ents, i) ==
    IF i > Len(ents) THEN Ok(f)
    ELSE LET r == IF IsDir(f, ents[i]) THEN RmTree(f, ents[i]) ELSE OsRemove(f, ents[i])
         IN  IF r.err # "" THEN r ELSE RmEntries(r.fs, ents, i + 1)

RECURSIVE CopyTree(_, _, _, _)
RECURSIVE CopyEntries(_, _, _, _, _, _)
\* shutil.copytree(src, dst, dirs_exist_ok): the entries of src are listed
\* first, errors are collected and raised at the end
CopyTree(f, src, dst, dirs_exist_ok) ==
    IF "r" \notin f[src].mode THEN Fail("PermissionError", f)
    ELSE IF IsDir(f, dst) /\ ~dirs_exist_ok THEN Fail("FileExistsError", f)
    ELSE LET mk == MkdirParents(f, dst)
             r == CopyEntries(mk.fs, SetToSeq(Children(f, src)), 1, dst, dirs_exist_ok, "")
         IN  IF mk.err # "" THEN mk
             ELSE [err |-> r.err, fs |-> Put(r.fs, dst, DirNode(f[src].mode))]
CopyEntries(f, ents, i, dst, dirs_exist_ok, err) ==
    IF i > Len(ents) THEN [err |-> err, fs |-> f]
    ELSE LET d == dst \o <<BaseName(ents[i])>>
             r == IF IsDir(f, ents[i]) THEN CopyTree(f, ents[i], d, dirs_exist_ok)
                  ELSE Copy2(f, ents[i], d)
         IN  CopyEntries(r.fs, ents, i + 1, dst, dirs_exist_ok,
                         IF r.err # "" THEN "Error" ELSE err)

\* shutil.move of a directory
ShutilMoveDir(f, src, dst) ==
    LET real_dst == IF IsDir(f, dst) THEN dst \o <<BaseName(src)>> ELSE dst
        rn == OsRename(f, src, real_dst)
        cp == CopyTree(f, src, real_dst, FALSE)
    IN  IF IsDir(f, dst) /\ src = dst THEN OsRename(f, src, dst)
        ELSE IF IsDir(f, dst) /\ Exists(f, real_dst) THEN Fail("Error", f)
        ELSE IF rn.err = "" THEN rn
        ELSE IF IsPrefix(src, dst) THEN Fail("Error", f)
        ELSE IF cp.err # "" THEN cp
        ELSE RmTree(cp.fs, src)

ShutilMove(f, src, dst) ==
    IF IsDir(f, src) THEN ShutilMoveDir(f, src, dst) ELSE ShutilMoveFile(f, src, dst)

Done(r, m, f) == [ret |-> r, msg |-> m, fs |-> f]

\* create_file(path): [ret, msg, fs]
CreateBody(f, path) ==
    LET v == validate_path(f, path, FALSE, "file")
        p == PathOf(path)
        mk == MkdirParents(f, Parent(p))
        t == Touch(mk.fs, p)
    IN  IF ~v.ok THEN Done("False", v.msg, f)
        ELSE IF mk.err # "" THEN Done("False", mk.err, mk.fs)
        ELSE IF t.err # "" THEN Done("False", t.err, t.fs)
        ELSE Done("True", "", t.fs)

\* the text written, as its lines
Text == << <<"t">> >>

\* write_file(path, text, append): [ret, msg, fs]
WriteBody(f, path, text, append) ==
    LET v == validate_path(f, path, append, "file")
        p == PathOf(path)
        mk == IF append THEN Ok(f) ELSE MkdirParents(f, Parent(p))
        o == IF IsEmptyStr(path) THEN Fail("FileNotFoundError", mk.fs)
             ELSE IF append THEN OpenAppend(mk.fs, p)
             ELSE OpenWrite(mk.fs, p)
    IN  IF ~v.ok /\ append THEN Done("False", v.msg, f)
        ELSE IF mk.err # "" THEN Done("False", mk.err, mk.fs)
        ELSE IF ~Access(mk.fs, Parent(p), {"w"}) THEN Done("False", "AccessDenied", mk.fs)
        ELSE IF o.err # "" THEN Done("False", o.err, o.fs)
        ELSE Done("True", "",
                  Put(o.fs, p, FileNode([o.fs[p].data EXCEPT !.id = @ \o text],
                                        o.fs[p].mode)))

\* rename_item without the test of the destination
RenameBody_NoExistsCheck(f, src, dst) ==
    LET v == validate_path(f, src, TRUE, "auto")
        d == PathOf(Strip(dst))
        rn == OsRename(f, PathOf(src), d)
    IN  IF ~v.ok THEN Done("False", v.msg, f)
        ELSE IF IsEmptyStr(dst) THEN Done("False", "InvalidPath", f)
        ELSE IF ~Access(f, Parent(d), {"w"}) THEN Done("False", "AccessDenied", f)
        ELSE IF rn.err # "" THEN Done("False", rn.err, rn.fs)
        ELSE Done("True", "", rn.fs)

\* rename_item(src, dst): [ret, msg, fs]
RenameBody(f, src, dst) ==
    LET v == validate_path(f, src, TRUE, "auto")
        d == PathOf(Strip(dst))
        rn == OsRename(f, PathOf(src), d)
    IN  IF ~v.ok THEN Done("False", v.msg, f)
        ELSE IF IsEmptyStr(dst) THEN Done("False", "InvalidPath", f)
        \* Path(dst).exists() raises PermissionError below a directory
        \* that cannot be searched
        ELSE IF Stat(f, d) = "EACCES" THEN Done("False", "AccessDenied", f)
        ELSE IF Exists(f, d) THEN Done("False", "AlreadyExists", f)
        ELSE IF ~Access(f, Parent(d), {"w"}) THEN Done("False", "AccessDenied", f)
        ELSE IF rn.err # "" THEN Done("False", rn.err, rn.fs)
        ELSE Done("True", "", rn.fs)

\* delete_item(path): [ret, msg, fs]
DeleteBody(f, path) ==
    LET v == validate_path(f, path, TRUE, "auto")
        p == PathOf(path)
        rm == IF IsDir(f, p) THEN RmTree(f, p) ELSE OsRemove(f, p)
    IN  IF ~v.ok THEN Done("False", v.msg, f)
        ELSE IF ~Access(f, p, {"w"}) THEN Done("False", "AccessDenied", f)
        ELSE IF rm.err # "" THEN Done("False", rm.err, rm.fs)
        ELSE Done("True", "", rm.fs)

\* copy_item(src, dst): [ret, msg, fs]
CopyBody(f, src, dst) ==
    LET v == validate_path(f, src, TRUE, "auto")
        s == PathOf(src)
        d == PathOf(Strip(dst))
        mk == IF Exists(f, Parent(d)) THEN Ok(f) ELSE MkdirParents(f, Parent(d))
        cp == IF IsEmptyStr(Strip(dst)) THEN Fail("FileNotFoundError", mk.fs)
              ELSE IF IsDir(mk.fs, s) THEN CopyTree(mk.fs, s, d, TRUE)
              ELSE Copy2(mk.fs, s, d)
    IN  IF ~v.ok THEN Done("False", v.msg, f)
        ELSE IF IsEmptyStr(dst) THEN Done("False", "InvalidPath", f)
        ELSE IF ~Access(f, s, RO) THEN Done("False", "AccessDenied", f)
        ELSE IF mk.err # "" THEN Done("False", mk.err, mk.fs)
        ELSE IF ~Access(mk.fs, Parent(d), {"w"}) THEN Done("False", "AccessDenied", mk.fs)
        ELSE IF cp.err # "" THEN Done("False", cp.err, cp.fs)
        ELSE Done("True", "", cp.fs)

\* move_item(src, dst): [ret, msg, fs]
MoveBody(f, src, dst) ==
    LET v == validate_path(f, src, TRUE, "auto")
        s == PathOf(src)
        d == PathOf(Strip(dst))
        mk == IF Exists(f, Parent(d)) THEN Ok(f) ELSE MkdirParents(f, Parent(d))
        mv == IF IsEmptyStr(Strip(dst)) THEN Fail("FileNotFoundError", mk.fs)
              ELSE ShutilMove(mk.fs, s, d)
    IN  IF ~v.ok THEN Done("False", v.msg, f)
        ELSE IF IsEmptyStr(dst) THEN Done("False", "InvalidPath", f)
        ELSE IF ~Access(f, s, {"w"}) THEN Done("False", "AccessDenied", f)
        ELSE IF mk.err # "" THEN Done("False", mk.err, mk.fs)
        ELSE IF ~Access(mk.fs, Parent(d), {"w"}) THEN Done("False", "AccessDenied", mk.fs)
        ELSE IF mv.err # "" THEN Done("False", mv.err, mv.fs)
        ELSE Done("True", "", mv.fs)

\* one call of an operation that runs in a single step
ItemCall(c, r) ==
    /\ pc = "idle"
    /\ ncalls < MaxCalls
    /\ ncalls' = ncalls + 1
    /\ prev' = [call |-> call, ret |-> ret, fs0 |-> fs0]
    /\ call' = c
    /\ fs0' = fs
    /\ ret' = r.ret
    /\ rep' = [EmptyRep EXCEPT !.msg = r.msg]
    /\ fs' = r.fs
    /\ UNCHANGED <<pc, todo, processed, now>>

\* a call of validate_path on its own
Validate(path, should_exist, path_type) ==
    LET v == validate_path(fs, path, should_exist, path_type)
    IN  ItemCall([op |-> "validate_path", path |-> path, should_exist |-> should_exist,
                  path_type |-> path_type],
                 Done(IF v.ok THEN "True" ELSE "False", v.msg, fs))

create_file(path) ==
    ItemCall([op |-> "create_file", path |-> path], CreateBody(fs, path))
write_file(path, text, append) ==
    ItemCall([op |-> "write_file", path |-> path, text |-> text, append |-> append],
             WriteBody(fs, path, text, append))
rename_item(src, dst) ==
    ItemCall([op |-> "rename_item", src |-> src, dst |-> dst], RenameBody(fs, src, dst))
delete_item(path) ==
    ItemCall([op |-> "delete_item", path |-> path], DeleteBody(fs, path))
copy_item(src, dst) ==
    ItemCall([op |-> "copy_item", src |-> src, dst |-> dst], CopyBody(fs, src, dst))
move_item(src, dst) ==
    ItemCall([op |-> "move_item", src |-> src, dst |-> dst], MoveBody(fs, src, dst))

(***************************************************************************)
(* search_files                                                            *)
(***************************************************************************)
\* needle in haystack, both strings
Contains(haystack, needle) ==
    \E i \in 0..(Len(haystack) - Len(needle)) : SubSeq(haystack, i + 1, i + Len(needle)) = needle

RECURSIVE Flatten(_)
Flatten(ws) == IF ws = <<>> THEN <<>> ELSE Head(ws) \o Flatten(Tail(ws))
\* f.read(): the text of a plain file
Content(data) == Flatten(data.id)

\* the tests on one file of the walk, case-sensitive on the file name
SearchMatch_CaseSensitive(f, q, name, ext, keyword) ==
    LET file == BaseName(q)
    IN  IF name # <<>> /\ ~Contains(file, Lower(name)) THEN FALSE
        ELSE IF ext # <<>> /\ ~EndsWith(file, Lower(ext)) THEN FALSE
        ELSE IF keyword # <<>>
        THEN Access(f, q, RO) /\ Contains(Lower(Content(f[q].data)), Lower(keyword))
        ELSE TRUE

\* the tests on one file of the walk: it is reported when they all pass
SearchMatch(f, q, name, ext, keyword) ==
    LET file == BaseName(q)
    IN  IF name # <<>> /\ ~Contains(Lower(file), Lower(name)) THEN FALSE
        ELSE IF ext # <<>> /\ ~EndsWith(Lower(file), Lower(ext)) THEN FALSE
        ELSE IF keyword # <<>>
        THEN Access(f, q, RO) /\ Contains(Lower(Content(f[q].data)), Lower(keyword))
        ELSE TRUE

SearchArgs(directory, name, ext, keyword) ==
    [op |-> "search_files", directory |-> directory, name |-> name, ext |-> ext,
     keyword |-> keyword]

\* the checks of search_files and the start of the walk
search_files(directory, name, ext, keyword) ==
    /\ pc = "idle"
    /\ ncalls < MaxCalls
    /\ ncalls' = ncalls + 1
    /\ prev' = [call |-> call, ret |-> ret, fs0 |-> fs0]
    /\ call' = SearchArgs(directory, name, ext, keyword)
    /\ fs0' = fs
    /\ processed' = <<>>
    /\ LET v == validate_path(fs, directory, TRUE, "dir")
       IN  IF ~v.ok
           THEN /\ ret' = "False"
                /\ rep' = [EmptyRep EXCEPT !.msg = v.msg]
                /\ todo' = {}
                /\ pc' = "idle"
           ELSE IF ~Access(fs, PathOf(directory), RO)
           THEN /\ ret' = "False"
                /\ rep' = [EmptyRep EXCEPT !.msg = "AccessDenied"]
                /\ todo' = {}
                /\ pc' = "idle"
           ELSE /\ ret' = "none"
                /\ rep' = [EmptyRep EXCEPT !.count = 0]
                /\ todo' = WalkFiles(fs, PathOf(directory))
                /\ pc' = "search_walk"
    /\ UNCHANGED <<fs, now>>

\* one file of the walk, in whatever order the walk yields them
SearchFile ==
    /\ pc = "search_walk"
    /\ \E q \in todo :
         /\ todo' = todo \ {q}
         /\ IF SearchMatch(fs, q, call.name, call.ext, call.keyword)
            THEN /\ processed' = Append(processed, q)
                 /\ rep' = [rep EXCEPT !.count = @ + 1]
            ELSE UNCHANGED <<processed, rep>>
    /\ UNCHANGED <<fs, pc, call, fs0, ret, now, prev, ncalls>>

SearchFinish ==
    /\ pc = "search_walk"
    /\ todo = {}
    /\ ret' = "True"
    /\ pc' = "idle"
    /\ UNCHANGED <<fs, call, fs0, todo, processed, rep, now, prev, ncalls>>

(***************************************************************************)
(* storage_analysis: the cleaning of the temp directory                    *)
(***************************************************************************)
\* tempfile.gettempdir()
TempDir == <<N_tmp>>

RECURSIVE RmTreeIgnore(_, _)
RECURSIVE RmEntriesIgnore(_, _, _, _)
\* shutil.rmtree(path, ignore_errors=True): what cannot be removed is left
RmTreeIgnore(f, p) ==
    IF ~IsDir(f, p) \/ "r" \notin f[p].mode THEN f
    ELSE LET g == RmEntriesIgnore(f, p, SetToSeq(Children(f, p)), 1)
         IN  IF Children(g, p) = {} /\ p # <<>> /\ "w" \in g[Parent(p)].mode
             THEN Remove(g, p)
             ELSE g
RmEntriesIgnore(f, p, ents, i) ==
    IF i > Len(ents) THEN f
    ELSE IF IsDir(f, ents[i]) THEN RmEntriesIgnore(RmTreeIgnore(f, ents[i]), p, ents, i + 1)
    ELSE IF "w" \in f[p].mode THEN RmEntriesIgnore(Remove(f, ents[i]), p, ents, i + 1)
    ELSE RmEntriesIgnore(f, p, ents, i + 1)

RECURSIVE CleanFiles(_, _, _)
\* for f in files: os.remove, counted when it succeeds: [fs, n]
CleanFiles(f, files, i) ==
    IF i > Len(files) THEN [fs |-> f, n |-> 0]
    ELSE LET r == OsRemove(f, files[i])
             rest == CleanFiles(r.fs, files, i + 1)
         IN  [fs |-> rest.fs, n |-> rest.n + (IF r.err = "" THEN 1 ELSE 0)]

RECURSIVE CleanDirs(_, _, _)
\* for d in dirs: shutil.rmtree(d, ignore_errors=True)
CleanDirs(f, dirs, i) ==
    IF i > Len(dirs) THEN f ELSE CleanDirs(RmTreeIgnore(f, dirs[i]), dirs, i + 1)

RECURSIVE CleanWalk(_, _)
RECURSIVE CleanWalkInto(_, _, _)
\* os.walk(root) top down with the body of the loop: [fs, n]
CleanWalk(f, root) ==
    IF ~IsDir(f, root) \/ "r" \notin f[root].mode THEN [fs |-> f, n |-> 0]
    ELSE LET files == SetToSeq({q \in Children(f, root) : IsFile(f, q)})
             dirs == SetToSeq({q \in Children(f, root) : IsDir(f, q)})
             a == CleanFiles(f, files, 1)
             b == CleanDirs(a.fs, dirs, 1)
             c == CleanWalkInto(b, dirs, 1)
         IN  [fs |-> c.fs, n |-> a.n + c.n]
CleanWalkInto(f, dirs, i) ==
    IF i > Len(dirs) THEN [fs |-> f, n |-> 0]
    ELSE LET r == CleanWalk(f, dirs[i])
             rest == CleanWalkInto(r.fs, dirs, i + 1)
         IN  [fs |-> rest.fs, n |-> r.n + rest.n]

\* storage_analysis() with the answer typed at its prompt
storage_analysis(choice) ==
    LET yes == Lower(RStrip(LStrip(choice))) = <<"y", "e", "s">>
        r == CleanWalk(fs, TempDir)
    IN  /\ pc = "idle"
        /\ ncalls < MaxCalls
        /\ ncalls' = ncalls + 1
        /\ prev' = [call |-> call, ret |-> ret, fs0 |-> fs0]
        /\ call' = [op |-> "storage_analysis", choice |-> choice]
        /\ fs0' = fs
        /\ ret' = "None"
        /\ rep' = IF yes THEN [EmptyRep EXCEPT !.count = r.n] ELSE EmptyRep
        /\ fs' = IF yes THEN r.fs ELSE fs
        /\ UNCHANGED <<pc, todo, processed, now>>

(***************************************************************************)
(* The organizer on its own: starting trees and calls                      *)
(***************************************************************************)
NoCall == [op |-> "none"]
EmptyFS == [q \in {} |-> NoData]

\* a regular file whose content is identified by the path it starts at
FileAt(p, mode) == p :> FileNode(Plain(p), mode)
DirAt(p, mode) == p :> DirNode(mode)

Drop == <<N_drop>>
Base == DirAt(<<>>, RW) @@ DirAt(Drop, RW)

OptAJpg == {EmptyFS, FileAt(Drop \o <<N_a_jpg>>, RW), FileAt(Drop \o <<N_a_jpg>>, NOPERM)}
OptBJpg == {EmptyFS, FileAt(Drop \o <<N_B_JPG>>, RW)}
OptBTxt == {EmptyFS, FileAt(Drop \o <<N_b_txt>>, RW), FileAt(Drop \o <<N_b_txt>>, RO)}
OptCXyz == {EmptyFS, FileAt(Drop \o <<N_c_xyz>>, RW)}
OptNoext == {EmptyFS, FileAt(Drop \o <<N_noext>>, RW)}
OptZip == {EmptyFS, FileAt(Drop \o <<N_arch_zip>>, RW)}
OptImages ==
    LET I == Drop \o <<Images>>
        A == I \o <<N_a_jpg>>
    IN  { EmptyFS,
          FileAt(I, RW),
          DirAt(I, RW),
          DirAt(I, RW) @@ FileAt(A, RW),
          DirAt(I, RW) @@ DirAt(A, RW),
          DirAt(I, RW) @@ DirAt(A, RW) @@ FileAt(A \o <<N_a_jpg>>, RW),
          DirAt(I, RO),
          DirAt(I, RO) @@ FileAt(A, RW) }
OptCompressed ==
    LET C == Drop \o <<Compressed>>
    IN  {EmptyFS, FileAt(C, RW), DirAt(C, RW), DirAt(C, RO)}

OrgTrees ==
    {t \in {Base @@ o1 @@ o2 @@ o3 @@ o4 @@ o5 @@ o6 @@ o7 @@ o8 :
              o1 \in OptAJpg, o2 \in OptBJpg, o3 \in OptBTxt, o4 \in OptCXyz,
              o5 \in OptNoext, o6 \in OptImages, o7 \in OptCompressed,
              o8 \in OptZip} :
        Cardinality(Children(t, Drop)) <= MaxFiles}

InitCommon ==
    /\ pc = "idle"
    /\ call = NoCall
    /\ prev = [call |-> NoCall, ret |-> "none", fs0 |-> fs]
    /\ todo = {}
    /\ processed = <<>>
    /\ rep = EmptyRep
    /\ ret = "none"
    /\ now = 1
    /\ ncalls = 0

InitOrg ==
    /\ fs \in OrgTrees
    /\ fs0 = fs
    /\ InitCommon

OrgFolders == {Drop, <<N_nodir>>, Drop \o <<N_b_txt>>, <<>>, << <<" ">> >>}
OrgBundlePaths == {<<>>, <<N_out>>, <<N_nodir, N_out>>, Drop}

\* a first call with any arguments, later calls with the same arguments
NextOrg ==
    \/ \E folder \in OrgFolders, dry_run \in BOOLEAN, compress \in BOOLEAN,
          compress_path \in OrgBundlePaths :
          /\ compress \/ compress_path = <<>>
          /\ call = NoCall
                \/ call = OrganizeArgs(folder, dry_run, compress, compress_path)
          /\ OrganizeStart(folder, dry_run, compress, compress_path)
    \/ OrganizeFile
    \/ OrganizeFinish

SpecOrg == InitOrg /\ [][NextOrg]_vars

(***************************************************************************)
(* The archiver on its own: starting trees and calls                       *)
(***************************************************************************)
Docs == <<N_docs>>
ArchZip == <<N_arch_zip>>

ZOptX == {EmptyFS, FileAt(Docs \o <<N_x_txt>>, RW), FileAt(Docs \o <<N_x_txt>>, NOPERM)}
ZOptSub ==
    LET S == Docs \o <<N_sub>>
    IN  { EmptyFS,
          DirAt(S, RW),
          DirAt(S, RW) @@ FileAt(S \o <<N_y_txt>>, RW),
          DirAt(S, NOPERM) @@ FileAt(S \o <<N_y_txt>>, RW) }
\* no archive, a file that is not an archive, an archive with a bad entry
ZOptArch ==
    { EmptyFS,
      FileAt(ArchZip, RW),
      ArchZip :> FileNode(ZipData(<<[err |-> "", arc |-> <<N_t_txt>>, dir |-> FALSE,
                                     data |-> Plain(<<N_t_txt>>)]>>, TRUE), RW) }
ZOptE == {EmptyFS, DirAt(<<N_E>>, RW) @@ FileAt(<<N_E, N_x_txt>>, RW)}

ZipTrees ==
    {DirAt(<<>>, RW) @@ DirAt(Docs, RW) @@ o1 @@ o2 @@ o3 @@ o4 :
        o1 \in ZOptX, o2 \in ZOptSub, o3 \in ZOptArch, o4 \in ZOptE}

InitZip ==
    /\ fs \in ZipTrees
    /\ fs0 = fs
    /\ InitCommon

CompressSrcs == {Docs, Docs \o <<N_x_txt>>, <<N_nodir>>}
CompressDsts == {<<N_arch>>, Docs \o <<N_arch_zip>>, <<>>}
ExtractSrcs == {ArchZip, Docs \o <<N_arch_zip>>, Docs \o <<N_x_txt>>}
ExtractDsts == {<<N_E>>, <<>>}

NextZip ==
    \/ \E src \in CompressSrcs, dst \in CompressDsts : compress_files(src, dst)
    \/ \E src \in ExtractSrcs, dst \in ExtractDsts : extract_zip(src, dst)
    \/ ExtractTest
    \/ ExtractEntry
    \/ ExtractFinish

SpecZip == InitZip /\ [][NextZip]_vars

(***************************************************************************)
(* All the operations: starting trees and calls                            *)
(***************************************************************************)
GoodArchive ==
    ArchZip :> FileNode(ZipData(<<[err |-> "", arc |-> <<N_t_txt>>, dir |-> FALSE,
                                   data |-> Plain(<<N_t_txt>>)]>>, FALSE), RW)

Trees ==
    {DirAt(<<>>, RW) @@ DirAt(Docs, RW) @@ DirAt(Drop, RW)
        @@ FileAt(Drop \o <<N_a_jpg>>, RW) @@ GoodArchive @@ o1 @@ o2 :
        o1 \in {FileAt(Docs \o <<N_x_txt>>, RW), FileAt(Docs \o <<N_x_txt>>, NOPERM)},
        o2 \in {EmptyFS,
                DirAt(Docs \o <<N_sub>>, RW) @@ FileAt(Docs \o <<N_sub, N_y_txt>>, RW)}}

Init ==
    /\ fs \in Trees
    /\ fs0 = fs
    /\ InitCommon

\* a file, a directory, a new name, a name below a missing directory, the
\* empty string, a name with an illegal character, a blank string
ItemPaths ==
    {Docs \o <<N_x_txt>>, Docs, <<N_new>>, <<N_nodir, N_x_txt>>, <<>>, <<N_aLTb>>,
     << <<" ">> >>}

Next ==
    \/ \E path \in ItemPaths : ncalls < MaxOps /\ create_file(path)
    \/ \E path \in ItemPaths, append \in BOOLEAN :
          ncalls < MaxOps /\ write_file(path, Text, append)
    \/ \E src \in ItemPaths, dst \in ItemPaths : ncalls < MaxOps /\ rename_item(src, dst)
    \/ \E path \in ItemPaths : ncalls < MaxOps /\ delete_item(path)
    \/ \E src \in ItemPaths, dst \in ItemPaths :
          /\ ncalls < MaxOps
          \* a directory copied into itself never ends
          /\ ~(IsDir(fs, PathOf(src)) /\ Under(PathOf(src), PathOf(Strip(dst))))
          /\ copy_item(src, dst)
    \/ \E src \in ItemPaths, dst \in ItemPaths : ncalls < MaxOps /\ move_item(src, dst)
    \/ \E src \in {Docs, <<N_nodir>>, <<>>}, dst \in {<<N_arch>>, <<>>} :
          ncalls < MaxOps /\ compress_files(src, dst)
    \/ \E src \in {ArchZip, <<N_nodir>>, Docs, <<>>}, dst \in {<<N_E>>, <<>>} :
          ncalls < MaxOps /\ extract_zip(src, dst)
    \/ \E folder \in {Drop, <<N_nodir>>, Docs \o <<N_x_txt>>, <<>>}, dry_run \in BOOLEAN :
          ncalls < MaxOps /\ OrganizeStart(folder, dry_run, FALSE, <<>>)
    \/ \E path \in ItemPaths, should_exist \in BOOLEAN, path_type \in {"file", "dir", "auto"} :
          ncalls < MaxOps /\ Validate(path, should_exist, path_type)
    \/ OrganizeFile
    \/ OrganizeFinish
    \/ ExtractTest
    \/ ExtractEntry
    \/ ExtractFinish

Spec == Init /\ [][Next]_vars

(***************************************************************************)
(* Validation before mutation                                              *)
(***************************************************************************)
\* the call that has returned was given a path that fails the validation
\* the operation applies to it
ValidationFails ==
    IF call.op \in {"create_file"} THEN ~validate_path(fs0, call.path, FALSE, "file").ok
    ELSE IF call.op = "write_file"
    THEN ~validate_path(fs0, call.path, call.append, "file").ok
    ELSE IF call.op = "delete_item" THEN ~validate_path(fs0, call.path, TRUE, "auto").ok
    ELSE IF call.op \in {"rename_item", "copy_item", "move_item", "compress_files"}
    THEN ~validate_path(fs0, call.src, TRUE, "auto").ok \/ IsEmptyStr(call.dst)
    ELSE IF call.op = "extract_zip"
    THEN ~validate_path(fs0, call.src, TRUE, "file").ok \/ IsEmptyStr(call.dst)
    ELSE IF call.op = "organize_files"
    THEN OrganizeCheck(fs0, call.folder) \in {"empty", "missing", "notdir"}
    ELSE FALSE

\* C7: an operation called with a path that fails validation reports the
\* error and leaves the filesystem as it was
C7_ValidationBeforeMutation ==
    (pc = "idle" /\ ValidationFails) => (ret = "False" /\ fs = fs0)

(***************************************************************************)
(* The search on its own: starting trees and calls                         *)
(***************************************************************************)
FileWith(p, words, mode) == p :> FileNode(Plain(words), mode)
W_Hello == <<"H","e","l","l","o">>
W_shell == <<"s","h","e","l","l">>
W_lo == <<"l","o">>
W_dotTxt == <<".","t","x","t">>

SOptLog == {EmptyFS, FileWith(Docs \o <<N_Log_TXT>>, <<W_Hello>>, RW),
            FileWith(Docs \o <<N_Log_TXT>>, <<W_Hello>>, NOPERM)}
SOptBlog == {EmptyFS, FileWith(Docs \o <<N_blog>>, <<W_shell, W_lo>>, RW)}
SOptSub ==
    LET S == Docs \o <<N_sub>>
    IN  { EmptyFS,
          DirAt(S, RW) @@ FileWith(S \o <<N_c_txt>>, <<W_shell>>, RW),
          DirAt(S, RW) @@ FileWith(S \o <<N_c_txt>>, <<W_Hello>>, RW)
              @@ FileWith(S \o <<N_Log_TXT>>, <<W_lo>>, RO),
          DirAt(S, NOPERM) @@ FileWith(S \o <<N_c_txt>>, <<W_Hello>>, RW) }
SOptX == {EmptyFS, FileAt(<<N_x_txt>>, RW)}

SearchTrees ==
    {DirAt(<<>>, RW) @@ DirAt(Docs, RW) @@ o1 @@ o2 @@ o3 @@ o4 :
        o1 \in SOptLog, o2 \in SOptBlog, o3 \in SOptSub, o4 \in SOptX}

InitSearch ==
    /\ fs \in SearchTrees
    /\ fs0 = fs
    /\ InitCommon

NextSearch ==
    \/ \E directory \in {Docs, <<N_nodir>>, <<N_x_txt>>, <<>>},
          name \in {<<>>, <<"L","O","G">>}, ext \in {<<>>, W_dotTxt},
          keyword \in {<<>>, <<"H","E","L","L","O">>} :
          ncalls < MaxOps /\ search_files(directory, name, ext, keyword)
    \/ SearchFile
    \/ SearchFinish

SpecSearch == InitSearch /\ [][NextSearch]_vars

\* the destination directory of the extraction that was called
ExtractDst == PathOf(Strip(call.dst))
\* nothing differs from the start of the call but the destination directory
\* and the directories made on the way to it
NoEntryWritten ==
    \A q \in DOMAIN fs :
        \/ q \in DOMAIN fs0 /\ fs[q] = fs0[q]
        \/ IsPrefix(q, ExtractDst) /\ IsDir(fs, q) /\ q \notin DOMAIN fs0
\* the archive the call was given, as it was when the call started
SrcArchive == fs0[PathOf(call.src)].data
\* the call got as far as opening its source as an archive
Opened == call.op = "extract_zip" /\ ExtractOpen(fs0, call.src, call.dst).msg = ""

\* C15: extract_zip rejects a source without the .zip suffix; nothing is
\* written before the integrity check has ended; a corrupt archive fails as
\* corrupt with no entry written; when the call returns True every entry is
\* a file below dst with the content archived, and the count is the number
\* of entries
C15_VerifyBeforeExtract ==
    /\ (call.op = "extract_zip" /\ pc = "idle" /\ ~IsZipName(call.src))
       => (ret = "False" /\ fs = fs0)
    /\ (call.op = "extract_zip" /\ pc = "extract_test") => NoEntryWritten
    /\ (Opened /\ SrcArchive.bad /\ pc # "extract_test")
       => (pc = "idle" /\ ret = "False" /\ rep.msg = "CorruptArchive" /\ NoEntryWritten)
    /\ (Opened /\ pc = "idle" /\ ret = "True")
       => /\ ~SrcArchive.bad
          /\ IsDir(fs, ExtractDst)
          /\ rep.count = Len(SrcArchive.ents)
          /\ \A i \in 1..Len(SrcArchive.ents) :
               LET e == SrcArchive.ents[i]
               IN  IF e.dir THEN IsDir(fs, ExtractDst \o e.arc)
                   ELSE /\ IsFile(fs, ExtractDst \o e.arc)
                        /\ fs[ExtractDst \o e.arc].data = e.data

\* a corrupt archive with an entry was refused after its destination
\* directory had been made
C15_Witness ==
    /\ Opened /\ pc = "idle"
    /\ SrcArchive.bad /\ SrcArchive.ents # <<>>
    /\ rep.msg = "CorruptArchive"
    /\ ~Exists(fs0, ExtractDst) /\ IsDir(fs, ExtractDst)

(***************************************************************************)
(* Properties of search_files                                              *)
(***************************************************************************)
\* the file at q satisfies the three filters of the call
Satisfies(q) ==
    /\ call.name = <<>> \/ Contains(Lower(BaseName(q)), Lower(call.name))
    /\ call.ext = <<>> \/ EndsWith(Lower(BaseName(q)), Lower(call.ext))
    /\ \/ call.keyword = <<>>
       \/ /\ "r" \in fs0[q].mode
          /\ Contains(Lower(Content(fs0[q].data)), Lower(call.keyword))
\* the files below the directory of the call, none inside an unreadable
\* directory
Searched ==
    LET d == PathOf(call.directory)
    IN  {q \in DOMAIN fs0 :
            /\ IsFile(fs0, q) /\ Under(d, q)
            /\ \A dir \in DOMAIN fs0 : (IsPrefix(d, dir) /\ Under(dir, q)) => "r" \in fs0[dir].mode}

SearchDone == call.op = "search_files" /\ pc = "idle" /\ ret = "True"

\* C14: a search that has returned reported each file below the directory
\* that satisfies the three filters once and no other file, whatever the
\* order of the walk, counted them, and passed over unreadable files and
\* directories
C14_SearchExact ==
    SearchDone
    => /\ {processed[i] : i \in 1..Len(processed)} = {q \in Searched : Satisfies(q)}
       /\ Len(processed) = Cardinality({q \in Searched : Satisfies(q)})
       /\ rep.count = Len(processed)
       /\ fs = fs0

\* a search by keyword that reported two files and passed over an unreadable
\* one and an unreadable directory or a file without the keyword
C14_Witness ==
    /\ SearchDone
    /\ call.keyword # <<>>
    /\ rep.count >= 2
    /\ \E q \in DOMAIN fs0 : IsFile(fs0, q) /\ Under(PathOf(call.directory), q)
                             /\ q \notin {processed[i] : i \in 1..Len(processed)}

(***************************************************************************)
(* The temp cleaning on its own: starting trees and answers                *)
(***************************************************************************)
TOptX == {EmptyFS, FileAt(TempDir \o <<N_x_txt>>, RW), FileAt(TempDir \o <<N_x_txt>>, NOPERM)}
TOptSub ==
    LET S == TempDir \o <<N_sub>>
    IN  { EmptyFS,
          DirAt(S, RW),
          DirAt(S, RW) @@ FileAt(S \o <<N_y_txt>>, RW),
          DirAt(S, RO) @@ FileAt(S \o <<N_y_txt>>, RW),
          DirAt(S, NOPERM) @@ FileAt(S \o <<N_y_txt>>, RW) }

CleanTrees ==
    {DirAt(<<>>, RW) @@ DirAt(Docs, RW) @@ FileAt(Docs \o <<N_x_txt>>, RW)
        @@ DirAt(TempDir, m) @@ o1 @@ o2 :
        m \in {RW, RO}, o1 \in TOptX, o2 \in TOptSub}

InitClean ==
    /\ fs \in CleanTrees
    /\ fs0 = fs
    /\ InitCommon

Answers == {<<"y","e","s">>, <<" ","Y","E","S"," ">>, <<"n","o">>, <<"y">>, <<>>}

NextClean == \E choice \in Answers : ncalls < MaxOps /\ storage_analysis(choice)

SpecClean == InitClean /\ [][NextClean]_vars

(***************************************************************************)
(* Properties of the temp cleaning                                         *)
(***************************************************************************)
CleanCall == call.op = "storage_analysis"
AnsweredYes == CleanCall /\ Lower(RStrip(LStrip(call.choice))) = <<"y", "e", "s">>
\* nothing stands in the way of deleting q: the directories from the temp
\* directory down to it, and those inside it, can be read and written
Deletable(q) ==
    /\ Under(TempDir, q)
    /\ \A d \in DOMAIN fs0 :
         (IsDir(fs0, d) /\ IsPrefix(TempDir, d) /\ (IsPrefix(d, q) \/ IsPrefix(q, d)))
         => fs0[d].mode = RW

\* C16: after the answer yes every item below the temp directory that can
\* be deleted is gone, nothing outside it is touched, and the count
\* reported is the number of items deleted; after any other answer nothing
\* is deleted
C16_CleanTempCounted ==
    /\ AnsweredYes
       => /\ \A q \in DOMAIN fs0 : Deletable(q) => ~Exists(fs, q)
          /\ \A q \in DOMAIN fs0 : ~Under(TempDir, q) => (Exists(fs, q) /\ fs[q] = fs0[q])
          /\ rep.count = Cardinality(DOMAIN fs0 \ DOMAIN fs)
    /\ (CleanCall /\ ~AnsweredYes) => fs = fs0

(***************************************************************************)
(* Properties of the archiver                                              *)
(***************************************************************************)
\* the archive path compress_files writes for the dst it is given
ArchiveOf(dst) == PathOf(IF IsZipName(Strip(dst)) THEN Strip(dst) ELSE AddZip(Strip(dst)))
\* the files of a tree as relative path and content
FilesUnder(f, d) == {<<RelPath(q, d), f[q].data>> : q \in {x \in DOMAIN f : IsFile(f, x) /\ Under(d, x)}}
\* every directory and every file of the tree at d is readable
AllReadable(f, d) == \A q \in DOMAIN f : IsPrefix(d, q) => "r" \in f[q].mode

CompressDone == call.op = "compress_files" /\ pc = "idle"

\* C5: compress_files on a directory that yields no archivable file returns
\* False with the empty source failure and leaves no archive where there was
\* none
C5_EmptySourceNoArchive ==
    ( /\ CompressDone
      /\ validate_path(fs0, call.src, TRUE, "auto").ok
      /\ ~IsEmptyStr(call.dst)
      /\ IsDir(fs0, PathOf(call.src))
      /\ Access(fs0, PathOf(call.src), RO)
      /\ {q \in WalkFiles(fs0, PathOf(call.src)) : "r" \in fs0[q].mode} = {} )
    => /\ ret = "False"
       /\ rep.msg = "EmptySource"
       /\ ~Exists(fs0, ArchiveOf(call.dst)) => ~Exists(fs, ArchiveOf(call.dst))

\* C6: when compress_files of a directory of readable files has returned
\* True and extract_zip of the archive it wrote into a directory that did
\* not exist has returned True, the files under that directory are those
\* that were under the source directory, path by path with the same content
C6_RoundTrip ==
    ( /\ call.op = "extract_zip" /\ pc = "idle" /\ ret = "True"
      /\ prev.call.op = "compress_files" /\ prev.ret = "True"
      /\ IsDir(prev.fs0, PathOf(prev.call.src))
      /\ AllReadable(prev.fs0, PathOf(prev.call.src))
      /\ PathOf(call.src) = ArchiveOf(prev.call.dst)
      /\ ~Exists(fs0, PathOf(Strip(call.dst))) )
    => FilesUnder(fs, PathOf(Strip(call.dst))) = FilesUnder(prev.fs0, PathOf(prev.call.src))

(***************************************************************************)
(* Properties of organize_files                                            *)
(***************************************************************************)
OrgCall == call.op = "organize_files"
\* the call has returned after its enumeration pass
OrgDone == OrgCall /\ pc = "idle" /\ OrganizeCheck(fs0, call.folder) = ""
\* the loop over the children has ended, bundling has not begun
PassDone == OrgCall /\ pc = "organize_loop" /\ todo = {}
Folder == PathOf(Strip(call.folder))
ZipDir == IF call.compress_path # <<>> THEN PathOf(call.compress_path)
          ELSE Folder \o <<Compressed>>
\* the regular files among the immediate children when the call started
TopNames == {BaseName(q) : q \in {c \in Children(fs0, Folder) : fs0[c].kind = "file"}}
Accessible(n) == Access(fs0, Folder \o <<n>>, RW)

\* the category the classification table of the specification gives each
\* file name of the model
ClaimCategory(n) ==
    IF n \in {ZipName(t) : t \in 1..9} \cup {N_arch_zip} THEN Compressed
    ELSE IF n \in {N_a_jpg, N_B_JPG} THEN Images
    ELSE IF n = N_b_txt THEN Documents
    ELSE Misc

\* the file that started at folder/n is now at folder/<category>/n, or
\* inside it when that was a directory, and no longer at folder/n
Placed(n) ==
    LET src == Folder \o <<n>>
        d == Folder \o <<ClaimCategory(n), n>>
    IN  /\ ~(IsFile(fs, src) /\ fs[src].data = fs0[src].data)
        /\ \/ IsFile(fs, d) /\ fs[d].data = fs0[src].data
           \/ /\ IsDir(fs0, d)
              /\ IsFile(fs, d \o <<n>>)
              /\ fs[d \o <<n>>].data = fs0[src].data

InPlace(n) == LET src == Folder \o <<n>>
              IN  Exists(fs, src) /\ fs[src] = fs0[src]

\* what stands in the way of moving folder/n into its category folder
Obstacle(n) ==
    LET t == Folder \o <<ClaimCategory(n)>>
        d == t \o <<n>>
    IN  /\ Exists(fs0, t)
        /\ \/ ~IsDir(fs0, t)
           \/ "w" \notin fs0[t].mode
           \/ IsDir(fs0, d) /\ Exists(fs0, d \o <<n>>)

\* C1: a dry run of organize_files leaves the filesystem as it was when the
\* call started, no category folder created
C1_DryRunNoMutation == (OrgCall /\ call.dry_run) => fs = fs0

C3_ProcessedMoved ==
    OrgCall =>
        /\ \A i \in 1..Len(processed) :
             LET n == BaseName(processed[i])
             IN  /\ processed[i] = Folder \o <<ClaimCategory(n), n>>
                 /\ n \in TopNames
                 /\ Placed(n)
                 /\ n \notin rep.skipped \cup rep.failed \cup rep.dry
        /\ rep.archive # "" /\ IsFile(fs, ZipDir \o <<ZipName(now)>>) =>
             LET ents == fs[ZipDir \o <<ZipName(now)>>].data.ents
             IN  \A k \in 1..Len(ents) :
                    /\ ents[k].arc \in {<<BaseName(processed[i])>> : i \in 1..Len(processed)}
                    /\ ents[k].arc[1] \notin rep.skipped \cup rep.failed

C3_Witness ==
    /\ OrgCall /\ pc = "organize_loop"
    /\ processed # <<>>
    /\ rep.failed # {}

\* C4: a run that got past the checks on the folder returns True; when the
\* enumeration pass of a run that is not a dry run has ended, every file
\* lacking read and write permission is reported skipped and left in place,
\* every accessible file with nothing in the way of its move is moved into
\* its category folder, every other file is left in place and reported; one
\* locked and two normal files give two moves and one skip
C4_FailureIsolated ==
    /\ OrgDone => ret = "True"
    /\ (PassDone /\ ~call.dry_run) =>
         /\ \A n \in TopNames :
              /\ ~Accessible(n) => n \in rep.skipped /\ InPlace(n)
              /\ Accessible(n) /\ ~Obstacle(n) => n \in rep.moved /\ Placed(n)
              /\ n \notin rep.moved => n \in rep.skipped \cup rep.failed /\ InPlace(n)
         /\ ( /\ Cardinality(TopNames) = 3
              /\ Cardinality({n \in TopNames : ~Accessible(n)}) = 1
              /\ \A n \in TopNames : ~Obstacle(n) )
            => Cardinality(rep.moved) = 2 /\ Cardinality(rep.skipped) = 1

C4_Witness ==
    /\ PassDone /\ ~call.dry_run
    /\ Cardinality(TopNames) = 3
    /\ ~Accessible(N_a_jpg) /\ N_a_jpg \in rep.skipped
    /\ Cardinality(rep.moved) = 2

\* this call repeats the call before it, which got past the checks
Rerun ==
    /\ OrgDone
    /\ prev.call.op = "organize_files"
    /\ prev.call = call
    /\ prev.ret = "True"

\* no accessible regular file is among the immediate children at the start
NothingToMove == \A n \in TopNames : ~Accessible(n)

\* C8 as claimed: a second run with the same arguments moves nothing,
\* changes nothing and creates no archive
C8_SecondRunNoop ==
    Rerun => rep.moved = {} /\ rep.archive = "" /\ fs = fs0

\* C8 as amended: a second run with the same arguments moves nothing,
\* changes nothing under the folder and creates no archive, provided it is a
\* dry run or the first run left no accessible regular file among the
\* immediate children of the folder
C8_SecondRunNoopWhenOrganized ==
    (Rerun /\ (call.dry_run \/ NothingToMove)) =>
        rep.moved = {} /\ rep.archive = "" /\ fs = fs0

C8_Witness ==
    /\ Rerun /\ ~call.dry_run /\ NothingToMove
    /\ IsFile(fs, Drop \o <<Images, N_a_jpg>>)
    /\ fs[Drop \o <<Images, N_a_jpg>>].data = Plain(Drop \o <<N_a_jpg>>)
    /\ IsFile(fs, Drop \o <<N_b_txt>>)
    /\ fs = fs0

\* C9: only regular files that are immediate children are moved, every
\* subdirectory of the folder stays where it is and everything that was
\* inside a subdirectory when the call started is unchanged
C9_NonRecursive ==
    OrgCall /\ OrganizeCheck(fs0, call.folder) = "" =>
        /\ rep.moved \subseteq TopNames
        /\ \A q \in DOMAIN fs0 :
             /\ (Parent(q) = Folder /\ IsDir(fs0, q)) => IsDir(fs, q)
             /\ (Len(q) > Len(Folder) + 1 /\ IsPrefix(Folder, q)) =>
                    Exists(fs, q) /\ fs[q] = fs0[q]

\* C10: when bundling was requested, a file was moved and the creation of
\* the archive did not fail, the bundle destination holds
\* archive_<timestamp>.zip with one entry per moved file, each the moved
\* file under its base name, and the count reported is the number moved
C10_BundleHoldsMovedFiles ==
    (OrgDone /\ call.compress /\ processed # <<>> /\ rep.archive = "ok") =>
        LET zip_path == ZipDir \o <<ZipName(now)>>
        IN  /\ IsFile(fs, zip_path)
            /\ fs[zip_path].data.t = "zip"
            /\ LET ents == fs[zip_path].data.ents
               IN  /\ Len(ents) = Cardinality(rep.moved)
                   /\ rep.bundled = Cardinality(rep.moved)
                   /\ {ents[k].arc : k \in 1..Len(ents)} = {<<n>> : n \in rep.moved}
                   /\ \A k \in 1..Len(ents) :
                        /\ ~ents[k].dir
                        /\ ents[k].data = fs0[Folder \o ents[k].arc].data

\* C11: when bundling is requested and no file was moved, the run creates
\* neither the bundle directory nor any archive, and returns success
C11_NoArchiveWhenNothingMoved ==
    (OrgDone /\ call.compress /\ processed = <<>>)
    => /\ ret = "True"
       /\ Exists(fs, ZipDir) => Exists(fs0, ZipDir)
       /\ \A q \in DOMAIN fs :
            (IsFile(fs, q) /\ fs[q].data.t # "plain") => (q \in DOMAIN fs0 /\ fs0[q] = fs[q])

\* C12: when the bundling of a run fails, the step that attempted it leaves
\* every moved file where the move put it, and the run returns success
C12_BundleFailureKeepsMoves ==
    [][(PassDone /\ call.compress /\ processed # <<>> /\ rep'.archive \notin {"", "ok"})
       => /\ ret' = "True"
          /\ \A i \in 1..Len(processed) :
               Exists(fs', processed[i]) /\ fs'[processed[i]] = fs[processed[i]]]_vars

\* a run whose bundling failed after it had moved a file
C12_Witness ==
    /\ OrgDone /\ call.compress /\ ~call.dry_run
    /\ processed # <<>>
    /\ rep.archive \notin {"", "ok"}
    /\ \E i \in 1..Len(processed) : IsFile(fs, processed[i])

(***************************************************************************)
(* Properties of validate_path                                             *)
(***************************************************************************)
\* the outcome the specification gives the validation that was called
ValidateExpected ==
    LET p == PathOf(Strip(call.path))
    IN  IF IsEmptyStr(call.path) \/ IsEmptyStr(Strip(call.path)) \/ HasIllegal(p)
        THEN "InvalidPath"
        ELSE IF call.should_exist
        THEN IF ~Exists(fs0, p) THEN "NotFound"
             ELSE IF call.path_type = "file" /\ ~IsFile(fs0, p) THEN "TypeMismatch"
             ELSE IF call.path_type = "dir" /\ ~IsDir(fs0, p) THEN "TypeMismatch"
             ELSE ""
        ELSE IF ~Exists(fs0, Parent(p)) THEN "MissingParent"
        ELSE IF IsFile(fs0, p) THEN "warning"
        ELSE ""

\* C13: validate_path gives the outcome of the specification for its path,
\* should_exist flag and expected type, valid exactly for Ok and
\* Ok-with-warning, and leaves the filesystem as it was
C13_ValidateOutcome ==
    call.op = "validate_path"
    => /\ rep.msg = ValidateExpected
       /\ ret = (IF ValidateExpected \in {"", "warning"} THEN "True" ELSE "False")
       /\ fs = fs0

\* the content the file at q had when the call started is still at q, or,
\* for a top-level file, at its place in the category folder (inside it when
\* that place was a directory)
Kept(q) ==
    LET n == BaseName(q)
        d == Folder \o <<ClaimCategory(n), n>>
    IN  \/ IsFile(fs, q) /\ fs[q].data = fs0[q].data
        \/ /\ Parent(q) = Folder
           /\ \/ IsFile(fs, d) /\ fs[d].data = fs0[q].data
              \/ IsDir(fs0, d) /\ IsFile(fs, d \o <<n>>) /\ fs[d \o <<n>>].data = fs0[q].data

\* C17: a run that is not a dry run loses no file: every regular file that
\* was anywhere under folder when the call started is still there with its
\* content, where it was or in its category folder
C17_NoDataLoss ==
    (OrgDone /\ ~call.dry_run)
    => \A q \in DOMAIN fs0 : (IsFile(fs0, q) /\ Under(Folder, q)) => Kept(q)

\* the archive the compression that was called has written
Written == fs[ArchiveOf(call.dst)].data
\* the regular files below the source when the call started that can be
\* read, the archive path itself left out
Archivable ==
    LET src == PathOf(call.src)
    IN  {q \in WalkFiles(fs0, src) : "r" \in fs0[q].mode /\ q # ArchiveOf(call.dst)}

\* the entries of the archive written, as relative path and content
WrittenFiles == {<<Written.ents[k].arc, Written.ents[k].data>> : k \in 1..Len(Written.ents)}

\* C18: the archive compress_files writes for a directory holds one entry
\* for each readable regular file that was below the directory when the call
\* started, with its relative path and content, and no other entry, the
\* count reported is their number, and the archive is not an entry of itself
C18_ArchiveHoldsSourceFiles ==
    (CompressDone /\ ret = "True" /\ IsDir(fs0, PathOf(call.src)))
    => /\ WrittenFiles = {<<RelPath(q, PathOf(call.src)), fs0[q].data>> : q \in Archivable}
       /\ Len(Written.ents) = Cardinality(Archivable)
       /\ rep.count = Cardinality(Archivable)
       /\ \A e \in WrittenFiles : PathOf(call.src) \o e[1] # ArchiveOf(call.dst)

RECURSIVE OrganizeInOrder(_, _, _, _, _)
\* the enumeration pass over the names in the order given: the tree it
\* leaves and the names it reports as moved and as skipped
OrganizeInOrder(f, names, i, moved, skipped) ==
    IF i > Len(names) THEN [fs |-> f, moved |-> moved, skipped |-> skipped]
    ELSE LET r == OrganizeOne(f, Folder, names[i], call.dry_run)
         IN  OrganizeInOrder(r.fs, names, i + 1,
                             IF r.ev = "moved" THEN moved \cup {names[i]} ELSE moved,
                             IF r.ev = "skipped" THEN skipped \cup {names[i]} ELSE skipped)

\* the pass over the children of folder taken in one fixed order
OneOrder ==
    OrganizeInOrder(fs0, SetToSeq({BaseName(q) : q \in Children(fs0, Folder)}), 1, {}, {})

\* C19: whatever the order in which the children of folder are enumerated,
\* the enumeration pass ends with the same tree and the same moved and
\* skipped files as the pass in one fixed order
C19_OrderIndependent ==
    PassDone => /\ fs = OneOrder.fs
                /\ rep.moved = OneOrder.moved
                /\ rep.skipped = OneOrder.skipped

(***************************************************************************)
(* Properties of rename_item                                               *)
(***************************************************************************)
RenameCall == pc = "idle" /\ call.op = "rename_item"
RenameSrc == PathOf(call.src)
RenameDst == PathOf(Strip(call.dst))
\* the destination names something that is there and can be examined
DstExists == ~IsEmptyStr(call.dst) /\ Stat(fs0, RenameDst) = "ok"
\* the call was refused for the destination and changed nothing
Refused == ret = "False" /\ rep.msg = "AlreadyExists" /\ fs = fs0
\* the source is gone and what was below it is below the destination,
\* everything else as it was
Renamed ==
    /\ ~Exists(fs, RenameSrc)
    /\ \A q \in DOMAIN fs0 : ~IsPrefix(RenameSrc, q) => Exists(fs, q) /\ fs[q] = fs0[q]
    /\ \A q \in DOMAIN fs :
          \/ Exists(fs0, q) /\ ~IsPrefix(RenameSrc, q)
          \/ IsPrefix(RenameDst, q) /\ Exists(fs0, RenameSrc \o RelPath(q, RenameDst))
    /\ \A q \in DOMAIN fs0 :
          IsPrefix(RenameSrc, q) =>
              /\ Exists(fs, RenameDst \o RelPath(q, RenameSrc))
              /\ fs[RenameDst \o RelPath(q, RenameSrc)] = fs0[q]

\* C20 as stated: a rename_item whose destination exists fails with the
\* already-exists error and changes nothing, whatever the source is; a
\* rename_item that succeeds leaves the source absent and the destination
\* holding what the source held
C20_RenameNeverOverwrites ==
    RenameCall => /\ DstExists => Refused
                  /\ ret = "True" => Renamed

\* C20: a rename_item whose source passes the validation and whose
\* destination exists fails with the already-exists error and changes
\* nothing; a rename_item that fails changes nothing; a rename_item that
\* succeeds leaves the source absent and the destination holding what the
\* source held
C20_RenameValidSourceNeverOverwrites ==
    RenameCall =>
        /\ (validate_path(fs0, call.src, TRUE, "auto").ok /\ DstExists) => Refused
        /\ ret = "False" => fs = fs0
        /\ ret = "True" => ~Exists(fs0, RenameDst) /\ Renamed

\* a rename_item of an existing file onto another existing item was refused
C20_Witness ==
    /\ RenameCall
    /\ validate_path(fs0, call.src, TRUE, "auto").ok
    /\ DstExists
    /\ RenameSrc # RenameDst
    /\ IsFile(fs0, RenameSrc)
    /\ Refused

====
